---- MODULE Spec2Model ----
(***************************************************************************)
(* Stock-Analyst-Agent: the two entry points of the repository.           *)
(*   scripts/stock_agent.py  StockAnalysisSystem and its main()            *)
(*   playground.py           StockAgentPlayground, module body and main()  *)
(* Python strings that the code formats are sequences of characters, a    *)
(* dict is a sequence of key/value pairs with distinct keys in insertion   *)
(* order, an unset attribute is the empty sequence and a set one a         *)
(* one-element sequence.  Calls into the phi framework that the source    *)
(* wraps in try/except may raise; the others return what they were given.  *)
(***************************************************************************)
EXTENDS Naturals, Sequences, FiniteSets, TLC

\* ---------------------------------------------------------------- bounds
\* Largest number of instruction strings in one configuration file.
MaxInstr == 3
\* Largest number of analyze_stock calls a programmatic caller makes.
MaxCalls == 2

\* ---------------------------------------------------------------- inputs
\* Instruction strings a configuration file may hold.
Instr == {"A", "B"}
\* Role keys a configuration file may hold under "agents".
Roles == {"web_search", "finance", "extra"}
\* Values of PHI_API_KEY as os.getenv sees it: unset, empty, or a key.
Unset == "<unset>"
EnvValues == {Unset, "", "phi-key"}
\* Model identifiers a configuration file may name.
FileModelIds == {"m1"}
\* An exception: its class and its message.
Exc(type, msg) == [type |-> type, msg |-> msg]
\* What a framework call inside a try block of playground.py may raise.
CtorErrors == {Exc("ImportError", << >>), Exc("ValidationError", << >>)}
\* What print_response may raise: an Exception with an empty or a short message.
CallErrors == {Exc("Exception", << >>),
               Exc("Exception", <<"t", "i", "m", "e", "o", "u", "t">>)}
\* What print_response may return: None, or a text.
Responses == {[type |-> "NoneType", value |-> << >>],
              [type |-> "str", value |-> <<"o", "k">>]}
\* Queries a caller that imported the module may pass.
Queries == {"q1"}

\* ---------------------------------------------------------------- helpers
Range(s) == {s[i] : i \in 1..Len(s)}

\* dict: k in d
HasKey(d, k) == \E i \in 1..Len(d) : d[i].key = k
\* dict: d[k], for a key that is there
Get(d, k) == d[CHOOSE i \in 1..Len(d) : d[i].key = k].value
\* dict: d[k] = v (a new key is appended, an old one keeps its place)
Put(d, k, v) ==
    IF HasKey(d, k)
    THEN [i \in 1..Len(d) |-> IF d[i].key = k THEN [key |-> k, value |-> v] ELSE d[i]]
    ELSE Append(d, [key |-> k, value |-> v])
\* dict: list(d.values())
Values(d) == [i \in 1..Len(d) |-> d[i].value]
Keys(d) == {d[i].key : i \in 1..Len(d)}

\* ------------------------------------------------- the configuration file
\* A role's JSON object with at most n instruction strings:
\* {"instructions": [...]} or {} .
RoleValues(n) ==
    {[has_instructions |-> FALSE, instructions |-> << >>]} \cup
    {[has_instructions |-> TRUE, instructions |-> l] :
        l \in UNION {[1..k -> Instr] : k \in 0..n}}

Distinct(ks) == \A i, j \in 1..Len(ks) : ks[i] = ks[j] => i = j

\* The keys of the JSON object "agents" in the order the file writes them:
\* any roles in any order, the first key possibly written once more at the end.
KeyLists ==
    {ks \in UNION {[1..n -> Roles] : n \in 0..Cardinality(Roles)} :
        \/ Distinct(ks)
        \/ Len(ks) >= 2 /\ ks[Len(ks)] = ks[1] /\ Distinct(SubSeq(ks, 1, Len(ks) - 1))}

\* The member lists with keys ks that hold at most budget instruction strings.
RECURSIVE MembersOf(_, _)
MembersOf(ks, budget) ==
    IF ks = << >> THEN {<< >>}
    ELSE UNION {{<<[key |-> Head(ks), value |-> v]>> \o rest :
                    rest \in MembersOf(Tail(ks), budget - Len(v.instructions))} :
                v \in RoleValues(budget)}

\* The members of the JSON object "agents", as written in the file.
MemberLists == UNION {MembersOf(ks, MaxInstr) : ks \in KeyLists}

\* The JSON documents a present file may hold: "model_id" and "agents" are
\* each there or not.
FileDocs ==
    {[has_model_id |-> FALSE, model_id |-> "", has_agents |-> FALSE, members |-> << >>]}
    \cup {[has_model_id |-> TRUE, model_id |-> id, has_agents |-> FALSE, members |-> << >>] :
             id \in FileModelIds}
    \cup {[has_model_id |-> FALSE, model_id |-> "", has_agents |-> TRUE, members |-> m] :
             m \in MemberLists}
    \cup {[has_model_id |-> TRUE, model_id |-> id, has_agents |-> TRUE, members |-> m] :
             id \in FileModelIds, m \in MemberLists}

NoDoc == [has_model_id |-> FALSE, model_id |-> "", has_agents |-> FALSE,
          members |-> << >>]
Files == {[present |-> FALSE, doc |-> NoDoc]} \cup
         {[present |-> TRUE, doc |-> d] : d \in FileDocs}

VARIABLES
    entry,        \* "playground" (playground.py) or "stock_agent" (stock_agent.py)
    pc,           \* position in the entry point
    environ,      \* PHI_API_KEY in the process environment
    file,         \* config.json beside stock_agent.py
    config,       \* self.config
    model,        \* self.model
    agents,       \* the local agents of _initialize_agents / setup_playground
    self_agents,  \* self.agents
    phi_api,      \* phi.api
    app,          \* the Playground application
    query,        \* the query of the analyze_stock call in progress
    queries,      \* print_response invocations so far
    calls,        \* analyze_stock calls returned so far
    result,       \* what the last analyze_stock call returned
    raised,       \* what the last framework call inside a try block raised
    error,        \* the exception that reached the caller of the entry point
    log,          \* logger.error / logger.info records
    served        \* serve_playground_app was invoked

vars == <<entry, pc, environ, file, config, model, agents, self_agents, phi_api,
          app, query, queries, calls, result, raised, error, log, served>>

NoError == Exc("<none>", << >>)
KeyError == Exc("KeyError", << >>)
ValueError == Exc("ValueError", << >>)
\* str(e)
str(e) == e.msg
NoResult == [type |-> "<none>", value |-> << >>]

\* ------------------------------------------------ scripts/stock_agent.py
\* json.load on the "agents" object: a dict, a repeated key keeping its first
\* place and its last value.
RECURSIVE json_load_object(_, _)
json_load_object(members, d) ==
    IF members = << >> THEN d
    ELSE json_load_object(Tail(members), Put(d, Head(members).key, Head(members).value))

\* json.load(f): the document as Python values.
json_load(doc) ==
    [has_model_id |-> doc.has_model_id, model_id |-> doc.model_id,
     has_agents |-> doc.has_agents, agents |-> json_load_object(doc.members, << >>)]

\* Mutant of DefaultConfig: the default without the finance role.
DefaultConfigOneRole ==
    [has_model_id |-> TRUE, model_id |-> "llama-3.3-70b-versatile",
     has_agents |-> TRUE,
     agents |-> <<[key |-> "web_search",
                   value |-> [has_instructions |-> TRUE,
                              instructions |-> <<"Always include sources.">>]]>>]

\* The dict literal of the except FileNotFoundError branch.
DefaultConfig ==
    [has_model_id |-> TRUE, model_id |-> "llama-3.3-70b-versatile",
     has_agents |-> TRUE,
     agents |-> <<[key |-> "web_search",
                   value |-> [has_instructions |-> TRUE,
                              instructions |-> <<"Always include sources.">>]],
                  [key |-> "finance",
                   value |-> [has_instructions |-> TRUE,
                              instructions |-> <<"Use tables to present data.">>]]>>]

\* Mutant of _load_config: the file's model_id and agents are overridden by
\* the default's.
_load_config_default(f) == DefaultConfig

\* _load_config: the parsed file, or the default when open() finds no file.
_load_config(f) == IF f.present THEN json_load(f.doc) ELSE DefaultConfig

\* Mutant of config_model_id: self.config.get("model_id", <the default's>).
config_model_id_or_default(cfg) ==
    [ok |-> TRUE,
     value |-> IF cfg.has_model_id THEN cfg.model_id ELSE DefaultConfig.model_id]

\* self.config["model_id"]: ok is FALSE where Python raises KeyError.
config_model_id(cfg) == [ok |-> cfg.has_model_id, value |-> cfg.model_id]

\* self.config["agents"][role]["instructions"]
config_instructions(cfg, role) ==
    IF cfg.has_agents /\ HasKey(cfg.agents, role)
       /\ Get(cfg.agents, role).has_instructions
    THEN [ok |-> TRUE, value |-> Get(cfg.agents, role).instructions]
    ELSE [ok |-> FALSE, value |-> << >>]

Groq(id) == [id |-> id]

NoTools == [kind |-> "", flags |-> {}]
DuckDuckGo == [kind |-> "DuckDuckGo", flags |-> {}]
YFinanceTools(flags) == [kind |-> "YFinanceTools", flags |-> flags]

\* Agent(...): the keyword arguments of the call.  The web-search and finance
\* agents are given their list as instruction=, the team agent as instructions=.
Agent(name, role, m, instruction, instructions, tools, team) ==
    [name |-> name, role |-> role, model |-> m, instruction |-> instruction,
     instructions |-> instructions, tools |-> tools, team |-> team,
     show_tools_calls |-> TRUE, markdown |-> TRUE]

WebSearchAgent(m, instruction) ==
    Agent("Web search agent",
          "A web search agent that can find information about stocks.",
          m, instruction, << >>, DuckDuckGo, << >>)

FinanceAgent(m, instruction) ==
    Agent("Finance agent",
          "A finance agent that can find information about stocks.",
          m, instruction, << >>,
          YFinanceTools({"stock_price", "analyst_recommendations",
                         "stock_fundamentals", "technical_indicators"}),
          << >>)

MultiAgent(m, team, instructions) ==
    Agent("", "", m, << >>, instructions, NoTools, team)

\* Mutant of extend_all: instructions = ... instead of instructions.extend(...),
\* so only the last role's list is left.
extend_all_assign(vals) ==
    IF \E i \in 1..Len(vals) : ~vals[i].has_instructions
    THEN [ok |-> FALSE, value |-> << >>]
    ELSE [ok |-> TRUE,
          value |-> IF vals = << >> THEN << >> ELSE vals[Len(vals)].instructions]

\* The loop of _combine_instructions: instructions.extend(...) over
\* self.config["agents"].values(); ok is FALSE where a value has no
\* "instructions" key.
RECURSIVE extend_all(_)
extend_all(vals) ==
    IF vals = << >> THEN [ok |-> TRUE, value |-> << >>]
    ELSE IF ~Head(vals).has_instructions THEN [ok |-> FALSE, value |-> << >>]
    ELSE LET rest == extend_all(Tail(vals))
         IN  [ok |-> rest.ok, value |-> Head(vals).instructions \o rest.value]

\* Mutant of list_of_set: list(l), duplicates kept.
list_of_set_keep(l) == {l}

\* list(set(l)): the distinct elements of l, in an order the build chooses.
list_of_set(l) ==
    {s \in [1..Cardinality(Range(l)) -> Range(l)] : Range(s) = Range(l)}

\* Mutant of combine_config_after: instructions starts as the first role's own
\* list, so extending it changes the configuration.
combine_config_alias(cfg) ==
    IF cfg.has_agents /\ cfg.agents # << >> /\ extend_all(Values(cfg.agents)).ok
    THEN [cfg EXCEPT !.agents[1].value.instructions =
                         extend_all(Values(cfg.agents)).value]
    ELSE cfg

\* What the loop of _combine_instructions leaves in self.config: it extends a
\* fresh list, so the configuration it reads is as before.
combine_config_after(cfg) == cfg

\* _combine_instructions: ok, the lists it may return, and self.config after.
_combine_instructions(cfg) ==
    LET ext == IF cfg.has_agents THEN extend_all(Values(cfg.agents))
               ELSE [ok |-> FALSE, value |-> << >>]
    IN  [ok |-> ext.ok,
         returns |-> IF ext.ok THEN list_of_set(ext.value) ELSE {},
         config |-> combine_config_after(cfg)]

ErrorPrefix ==
    <<"E", "r", "r", "o", "r", " ", "a", "n", "a", "l", "y", "z", "i", "n", "g",
      " ", "s", "t", "o", "c", "k", ":", " ">>

\* Mutant of error_msg: the message alone, without the literal prefix.
error_msg_bare(e) == str(e)

\* f"Error analyzing stock: {str(e)}"
error_msg(e) == ErrorPrefix \o str(e)

MainQuery == "Summarize the latest news about Adobe and its stock price."

\* ------------------------------------------------------------ playground.py
\* Mutant of _load_environment: `if api_key is None`, which lets an empty key
\* through.
_load_environment_none_only(env) ==
    IF env = Unset
    THEN [ok |-> FALSE, api |-> Unset,
          logged |-> <<"error", "Environment setup failed", ValueError>>,
          reraise |-> ValueError]
    ELSE [ok |-> TRUE, api |-> env, logged |-> << >>, reraise |-> NoError]

\* _load_environment after load_dotenv(): os.getenv, the `if not api_key` test,
\* and what the except block logs before it re-raises.
_load_environment(env) ==
    IF env = Unset \/ env = ""
    THEN [ok |-> FALSE, api |-> Unset,
          logged |-> <<"error", "Environment setup failed", ValueError>>,
          reraise |-> ValueError]
    ELSE [ok |-> TRUE, api |-> env, logged |-> << >>, reraise |-> NoError]

\* The except block of _load_environment for what load_dotenv itself raises.
_load_environment_except(e) ==
    [logged |-> <<"error", "Environment setup failed", e>>, reraise |-> e]

PlaygroundModelId == "llama-3.3-70b-versatile"

create_web_search_agent(m) ==
    Agent("Web search agent",
          "A web search agent that can find information about stocks.",
          m, <<"Always include sources and verify information accuracy.">>, << >>,
          DuckDuckGo, << >>)

create_finance_agent(m) ==
    Agent("Finance agent",
          "A finance agent that provides detailed stock analysis.",
          m, <<"Present data in tables with clear explanations.">>, << >>,
          YFinanceTools({"stock_price", "analyst_recommendations",
                         "stock_fundamentals", "company_info",
                         "technical_indicators"}),
          << >>)

\* Mutant of setup_playground_except: the failure is logged and not re-raised.
setup_playground_except_swallow(e) ==
    [logged |-> <<"error", "Playground setup failed", e>>, reraise |-> NoError]

\* The except block of setup_playground: logger.error, then a bare raise.
setup_playground_except(e) ==
    [logged |-> <<"error", "Playground setup failed", e>>, reraise |-> e]

\* The except block of playground.main.
main_except(e) ==
    [logged |-> <<"error", "Application startup failed", e>>, reraise |-> e]

\* ------------------------------------------------------------------- Init
\* playground.py tells an unset, an empty and a set PHI_API_KEY apart and reads
\* no file; stock_agent.py reads config.json and never the environment, so
\* there the key is just unset or set.
Init ==
    /\ entry \in {"playground", "stock_agent"}
    /\ pc = "start"
    /\ environ \in IF entry = "playground" THEN EnvValues ELSE {Unset, "phi-key"}
    /\ file \in IF entry = "playground" THEN {[present |-> FALSE, doc |-> NoDoc]}
                ELSE Files
    /\ config = << >>
    /\ model = << >>
    /\ agents = << >>
    /\ self_agents = << >>
    /\ phi_api = Unset
    /\ app = << >>
    /\ query = ""
    /\ queries = 0
    /\ calls = 0
    /\ result = NoResult
    /\ raised = NoError
    /\ error = NoError
    /\ log = << >>
    /\ served = FALSE

OneShot == entry = "stock_agent"

\* An exception leaves the entry point: the process ends with it.
Propagate(e) == pc' = "raised" /\ error' = e

\* ------------------------------------------ StockAnalysisSystem.__init__
\* self.config = self._load_config(config_path)
LoadConfig ==
    /\ OneShot /\ pc = "start"
    /\ config' = <<_load_config(file)>>
    /\ pc' = "config_loaded"
    /\ UNCHANGED <<entry, environ, file, model, agents, self_agents, phi_api, app,
                   query, queries, calls, result, raised, error, log, served>>

\* self.model = Groq(id=self.config["model_id"])
BuildModel ==
    /\ OneShot /\ pc = "config_loaded"
    /\ LET id == config_model_id(config[1])
       IN  IF id.ok
           THEN model' = <<Groq(id.value)>> /\ pc' = "model_built" /\ error' = error
           ELSE model' = model /\ Propagate(KeyError)
    /\ UNCHANGED <<entry, environ, file, config, agents, self_agents, phi_api, app,
                   query, queries, calls, result, raised, log, served>>

\* agents["web_search"] = Agent(...)
BuildWebSearch ==
    /\ OneShot /\ pc = "model_built"
    /\ LET ins == config_instructions(config[1], "web_search")
       IN  IF ins.ok
           THEN /\ agents' = Put(agents, "web_search", WebSearchAgent(model[1], ins.value))
                /\ pc' = "web_search_built" /\ error' = error
           ELSE agents' = agents /\ Propagate(KeyError)
    /\ UNCHANGED <<entry, environ, file, config, model, self_agents, phi_api, app,
                   query, queries, calls, result, raised, log, served>>

\* agents["finance"] = Agent(...)
BuildFinance ==
    /\ OneShot /\ pc = "web_search_built"
    /\ LET ins == config_instructions(config[1], "finance")
       IN  IF ins.ok
           THEN /\ agents' = Put(agents, "finance", FinanceAgent(model[1], ins.value))
                /\ pc' = "finance_built" /\ error' = error
           ELSE agents' = agents /\ Propagate(KeyError)
    /\ UNCHANGED <<entry, environ, file, config, model, self_agents, phi_api, app,
                   query, queries, calls, result, raised, log, served>>

\* agents["multi"] = Agent(team=..., instructions=self._combine_instructions());
\* return agents; self.agents = ...
BuildMulti ==
    /\ OneShot /\ pc = "finance_built"
    /\ LET c == _combine_instructions(config[1])
       IN  /\ config' = <<c.config>>
           /\ IF c.ok
              THEN \E l \in c.returns :
                     /\ agents' = Put(agents, "multi",
                                      MultiAgent(model[1],
                                                 <<Get(agents, "web_search"),
                                                   Get(agents, "finance")>>, l))
                     /\ self_agents' = agents'
                     /\ pc' = "constructed" /\ error' = error
              ELSE /\ agents' = agents /\ self_agents' = self_agents
                   /\ Propagate(KeyError)
    /\ UNCHANGED <<entry, environ, file, model, phi_api, app,
                   query, queries, calls, result, raised, log, served>>

\* ----------------------------------------------------------- analyze_stock
\* main(): stock_system.analyze_stock(query) with the fixed query, which calls
\* self.agents["multi"].print_response(query)
MainAnalyze ==
    /\ OneShot /\ pc = "constructed"
    /\ query' = MainQuery
    /\ queries' = queries + 1
    /\ pc' = "query_issued"
    /\ UNCHANGED <<entry, environ, file, config, model, agents, self_agents, phi_api,
                   app, calls, result, raised, error, log, served>>

\* A caller that imported the module: analyze_stock(q) on the system it built,
\* any number of times.
LibraryAnalyze ==
    /\ OneShot /\ pc \in {"constructed", "library_idle"} /\ calls < MaxCalls
    /\ \E q \in Queries : query' = q
    /\ queries' = queries + 1
    /\ pc' = "library_call"
    /\ UNCHANGED <<entry, environ, file, config, model, agents, self_agents, phi_api,
                   app, calls, result, raised, error, log, served>>

InCall == pc \in {"query_issued", "library_call"}
\* Mutant of AfterCall: main asks again after the call.
AfterCallRetry == IF pc = "query_issued" THEN "constructed" ELSE "library_idle"

\* Where analyze_stock returns to: the end of main, or the importing caller.
AfterCall == IF pc = "query_issued" THEN "completed" ELSE "library_idle"

\* print_response returns: the response is printed and returned.
PrintResponseReturns ==
    /\ OneShot /\ InCall
    /\ \E r \in Responses : result' = r
    /\ raised' = NoError
    /\ calls' = calls + 1
    /\ pc' = AfterCall
    /\ UNCHANGED <<entry, environ, file, config, model, agents, self_agents, phi_api,
                   app, query, queries, error, log, served>>

\* print_response raises an Exception: except Exception formats, prints and
\* returns the message.
PrintResponseRaises ==
    /\ OneShot /\ InCall
    /\ \E e \in CallErrors :
         /\ raised' = e
         /\ result' = [type |-> "str", value |-> error_msg(e)]
    /\ calls' = calls + 1
    /\ pc' = AfterCall
    /\ UNCHANGED <<entry, environ, file, config, model, agents, self_agents, phi_api,
                   app, query, queries, error, log, served>>

\* ------------------------------------------------- StockAgentPlayground
\* playground = StockAgentPlayground(): _load_environment, then the model.
PlaygroundInit ==
    /\ entry = "playground" /\ pc = "start"
    /\ LET env == _load_environment(environ)
       IN  IF env.ok
           THEN /\ phi_api' = env.api
                /\ model' = <<Groq(PlaygroundModelId)>>
                /\ pc' = "pg_constructed" /\ error' = error /\ log' = log
           ELSE /\ phi_api' = phi_api /\ model' = model
                /\ log' = Append(log, env.logged)
                /\ Propagate(env.reraise)
    /\ UNCHANGED <<entry, environ, file, config, agents, self_agents, app,
                   query, queries, calls, result, raised, served>>

\* load_dotenv() raises inside the try block of _load_environment.
LoadDotenvRaises ==
    /\ entry = "playground" /\ pc = "start"
    /\ \E e \in CtorErrors :
         LET h == _load_environment_except(e)
         IN  /\ raised' = e
             /\ log' = Append(log, h.logged)
             /\ Propagate(h.reraise)
    /\ UNCHANGED <<entry, environ, file, config, model, agents, self_agents, phi_api,
                   app, query, queries, calls, result, served>>

\* setup_playground: self.create_finance_agent()
CreateFinanceAgent ==
    /\ entry = "playground" /\ pc = "pg_constructed"
    /\ agents' = Append(agents, create_finance_agent(model[1]))
    /\ pc' = "pg_finance"
    /\ UNCHANGED <<entry, environ, file, config, model, self_agents, phi_api, app,
                   query, queries, calls, result, raised, error, log, served>>

\* setup_playground: self.create_web_search_agent()
CreateWebSearchAgent ==
    /\ entry = "playground" /\ pc = "pg_finance"
    /\ agents' = Append(agents, create_web_search_agent(model[1]))
    /\ pc' = "pg_agents"
    /\ UNCHANGED <<entry, environ, file, config, model, self_agents, phi_api, app,
                   query, queries, calls, result, raised, error, log, served>>

\* app = playground.setup_playground().get_app(): Playground(agents=agents)
BuildPlayground ==
    /\ entry = "playground" /\ pc = "pg_agents"
    /\ app' = <<[agents |-> agents]>>
    /\ pc' = "imported"
    /\ UNCHANGED <<entry, environ, file, config, model, agents, self_agents, phi_api,
                   query, queries, calls, result, raised, error, log, served>>

\* An agent constructor or Playground(...) raises inside the try block of
\* setup_playground.
SetupRaises ==
    /\ entry = "playground" /\ pc \in {"pg_constructed", "pg_finance", "pg_agents"}
    /\ \E e \in CtorErrors :
         LET h == setup_playground_except(e)
         IN  /\ raised' = e
             /\ log' = Append(log, h.logged)
             /\ Propagate(h.reraise)
    /\ UNCHANGED <<entry, environ, file, config, model, agents, self_agents, phi_api,
                   app, query, queries, calls, result, served>>

\* main(): logger.info, then serve_playground_app("playground:app", reload=True)
PlaygroundMain ==
    /\ entry = "playground" /\ pc = "imported"
    /\ log' = Append(log, <<"info", "Starting playground server...", NoError>>)
    /\ served' = TRUE
    /\ pc' = "serving"
    /\ UNCHANGED <<entry, environ, file, config, model, agents, self_agents, phi_api,
                   app, query, queries, calls, result, raised, error>>

\* serve_playground_app raises: main logs and re-raises.
ServeRaises ==
    /\ entry = "playground" /\ pc = "serving"
    /\ \E e \in CtorErrors :
         LET h == main_except(e)
         IN  /\ raised' = e
             /\ log' = Append(log, h.logged)
             /\ Propagate(h.reraise)
    /\ UNCHANGED <<entry, environ, file, config, model, agents, self_agents, phi_api,
                   app, query, queries, calls, result, served>>

Next ==
    \/ LoadConfig
    \/ BuildModel
    \/ BuildWebSearch
    \/ BuildFinance
    \/ BuildMulti
    \/ MainAnalyze
    \/ LibraryAnalyze
    \/ PrintResponseReturns
    \/ PrintResponseRaises
    \/ PlaygroundInit
    \/ LoadDotenvRaises
    \/ CreateFinanceAgent
    \/ CreateWebSearchAgent
    \/ BuildPlayground
    \/ SetupRaises
    \/ PlaygroundMain
    \/ ServeRaises

Spec == Init /\ [][Next]_vars

\* One run of stock_agent.main(): the system is built and asked once.  The run
\* is synchronous and single-threaded, so it takes its next step whenever it
\* has one.  No step of it reads the environment, which is left unset here.
InitMain == Init /\ entry = "stock_agent" /\ environ = Unset

NextMain ==
    \/ LoadConfig
    \/ BuildModel
    \/ BuildWebSearch
    \/ BuildFinance
    \/ BuildMulti
    \/ MainAnalyze
    \/ PrintResponseReturns
    \/ PrintResponseRaises

MainSpec == InitMain /\ [][NextMain]_vars /\ WF_vars(NextMain)

\* ================================================================= claims
SecretResolved == environ # Unset /\ environ # ""
Constructed == pc \in {"constructed", "query_issued", "library_call",
                       "library_idle", "completed"}
Returned == pc \in {"completed", "library_idle"}

\* C1 (as claimed): with PHI_API_KEY unset or empty no Agent is ever
\* constructed, in either entry point.  StockAnalysisSystem never reads the
\* variable, so there the agents are built all the same.
C1_NoAgentWithoutSecret ==
    ~SecretResolved => agents = << >> /\ self_agents = << >>

\* C1 (amended): in the playground entry point an unset or empty PHI_API_KEY
\* ends startup with a logged error before the model handle, any agent or the
\* application is constructed, and nothing is served.
C1_PlaygroundNeedsSecret ==
    (entry = "playground" /\ ~SecretResolved) =>
        /\ model = << >> /\ agents = << >> /\ app = << >>
        /\ phi_api = Unset /\ ~served
        /\ pc \in {"start", "raised"}
        /\ pc = "raised" =>
             /\ error \in {ValueError} \cup CtorErrors
             /\ log = <<<<"error", "Environment setup failed", error>>>>

C1_Witness ==
    /\ entry = "playground" /\ environ = "" /\ pc = "raised"
    /\ error = ValueError /\ agents = << >>

\* The literal the claim names, written out.
ErrorLiteral ==
    <<"E", "r", "r", "o", "r", " ", "a", "n", "a", "l", "y", "z", "i", "n", "g",
      " ", "s", "t", "o", "c", "k", ":">>

StartsWith(s, p) == Len(s) >= Len(p) /\ SubSeq(s, 1, Len(p)) = p
EndsWith(s, p) == Len(s) >= Len(p) /\ SubSeq(s, Len(s) - Len(p) + 1, Len(s)) = p

AllInstructions(cfg) ==
    UNION {Range(cfg.agents[i].value.instructions) : i \in 1..Len(cfg.agents)}

CombinedInstructions == Get(self_agents, "multi").instructions

\* C3: the team agent's instructions hold exactly the instruction strings of
\* all roles of the configuration, each once; for {web_search: [x],
\* finance: [y]} (here A and B) they are {x, y} as a set.
C3_CombineIsUnion ==
    (entry = "stock_agent" /\ Constructed) =>
        /\ Range(CombinedInstructions) = AllInstructions(config[1])
        /\ Len(CombinedInstructions) = Cardinality(Range(CombinedInstructions))
        /\ (/\ Keys(config[1].agents) = {"web_search", "finance"}
            /\ Get(config[1].agents, "web_search").instructions = <<"A">>
            /\ Get(config[1].agents, "finance").instructions = <<"B">>)
           => Range(CombinedInstructions) = {"A", "B"}

\* Two roles share a string and one role repeats one.
C3_Witness ==
    /\ entry = "stock_agent" /\ pc = "constructed" /\ file.present
    /\ Get(config[1].agents, "web_search").instructions = <<"A", "A">>
    /\ Get(config[1].agents, "finance").instructions = <<"A">>
    /\ CombinedInstructions = <<"A">>

\* The orderings of a sequence.
Orderings(s) ==
    {[i \in 1..Len(s) |-> s[f[i]]] :
        f \in {g \in [1..Len(s) -> 1..Len(s)] : Range(g) = 1..Len(s)}}

\* The dict d with each role's instruction list in any order.
RECURSIVE InnerOrderings(_)
InnerOrderings(d) ==
    IF d = << >> THEN {<< >>}
    ELSE {<<[Head(d) EXCEPT !.value.instructions = l]>> \o rest :
             l \in Orderings(Head(d).value.instructions),
             rest \in InnerOrderings(Tail(d))}

\* The configuration with its roles and their lists in any order.
Reorderings(cfg) ==
    {[cfg EXCEPT !.agents = d] :
        d \in UNION {InnerOrderings(o) : o \in Orderings(cfg.agents)}}

\* A configuration whose only instruction list is l.
Only(cfg, l) ==
    [cfg EXCEPT !.agents = <<[key |-> "web_search",
                              value |-> [has_instructions |-> TRUE,
                                         instructions |-> l]]>>]

\* C4: whatever the order of the roles and of the strings inside each list, the
\* aggregator returns the same set; and aggregating its own result again
\* returns that set.
C4_OrderInsensitiveIdempotent ==
    (entry = "stock_agent" /\ pc = "constructed") =>
        /\ \A c \in Reorderings(config[1]) :
             /\ _combine_instructions(c).ok
             /\ \A l \in _combine_instructions(c).returns :
                  Range(l) = Range(CombinedInstructions)
        /\ \A l \in _combine_instructions(Only(config[1], CombinedInstructions)).returns :
             Range(l) = Range(CombinedInstructions)

\* {"web_search": ["A"], "finance": ["A", "B"]}
C4_Witness ==
    /\ entry = "stock_agent" /\ pc = "constructed" /\ file.present
    /\ Keys(config[1].agents) = {"web_search", "finance"}
    /\ Get(config[1].agents, "web_search").instructions = <<"A">>
    /\ Get(config[1].agents, "finance").instructions = <<"A", "B">>
    /\ Range(CombinedInstructions) = {"A", "B"}

\* The value the file gives role r: the last member written with that key.
FileHas(r) == \E i \in 1..Len(file.doc.members) : file.doc.members[i].key = r
FileValue(r) ==
    LET last == CHOOSE i \in 1..Len(file.doc.members) :
                    /\ file.doc.members[i].key = r
                    /\ \A j \in (i + 1)..Len(file.doc.members) :
                         file.doc.members[j].key # r
    IN  file.doc.members[last].value

\* C5: a present file with model_id and both role keys is loaded as it is:
\* self.config has the file's model_id and, role by role, the file's
\* instruction lists in the file's order; the model handle and the web-search
\* and finance agents are built from those values.
C5_FileLoadedVerbatim ==
    (/\ entry = "stock_agent" /\ file.present
     /\ file.doc.has_model_id /\ file.doc.has_agents
     /\ FileHas("web_search") /\ FileHas("finance")) =>
        /\ config # << >> =>
             /\ config[1].has_model_id /\ config[1].model_id = file.doc.model_id
             /\ config[1].has_agents
             /\ Keys(config[1].agents) = {r \in Roles : FileHas(r)}
             /\ \A r \in Keys(config[1].agents) :
                  Get(config[1].agents, r) = FileValue(r)
        /\ model # << >> => model[1] = Groq(file.doc.model_id)
        /\ \A r \in {"web_search", "finance"} :
             HasKey(agents, r) =>
                /\ FileValue(r).has_instructions
                /\ Get(agents, r).instruction = FileValue(r).instructions
                /\ Get(agents, r).model = Groq(file.doc.model_id)

C5_Witness ==
    /\ entry = "stock_agent" /\ file.present /\ pc = "constructed"
    /\ file.doc.model_id = "m1"
    /\ Get(agents, "web_search").instruction = <<"B", "A">>
    /\ Get(agents, "finance").instruction = <<"A">>

\* C6: with no file, _load_config returns the built-in default (model_id
\* "llama-3.3-70b-versatile", roles web_search and finance with their built-in
\* lists), nothing is raised, and construction goes on until all three agents
\* are built.
C6_DefaultWhenAbsent ==
    (entry = "stock_agent" /\ ~file.present) =>
        /\ config # << >> =>
             /\ config[1].has_model_id
             /\ config[1].model_id = "llama-3.3-70b-versatile"
             /\ config[1].has_agents
             /\ [i \in 1..Len(config[1].agents) |-> config[1].agents[i].key]
                  = <<"web_search", "finance">>
             /\ Get(config[1].agents, "web_search")
                  = [has_instructions |-> TRUE,
                     instructions |-> <<"Always include sources.">>]
             /\ Get(config[1].agents, "finance")
                  = [has_instructions |-> TRUE,
                     instructions |-> <<"Use tables to present data.">>]
        /\ pc # "raised" /\ error = NoError
        /\ ~Constructed => ENABLED NextMain
        /\ Constructed => Keys(self_agents) = {"web_search", "finance", "multi"}

C6_Witness ==
    /\ entry = "stock_agent" /\ ~file.present /\ pc = "constructed"
    /\ Keys(self_agents) = {"web_search", "finance", "multi"}

\* The parsed file lacks a key the constructor looks up.
FileLacksKey ==
    \/ ~file.doc.has_model_id
    \/ ~file.doc.has_agents
    \/ ~FileHas("web_search")
    \/ ~FileHas("finance")
    \/ \E r \in Roles : FileHas(r) /\ ~FileValue(r).has_instructions

\* C7: with a present file that lacks an expected key the constructor ends in
\* a KeyError at its caller: the default is not put in the place of what is
\* missing, self.agents is never set, and no query is issued.
C7_MissingKeyPropagates ==
    (entry = "stock_agent" /\ file.present /\ FileLacksKey) =>
        /\ ~Constructed
        /\ self_agents = << >>
        /\ queries = 0
        /\ config # << >> => config[1] = json_load(file.doc)
        /\ model # << >> => file.doc.has_model_id /\ model[1].id = file.doc.model_id
        /\ error \in {NoError, KeyError}
        /\ pc = "raised" <=> error = KeyError
        /\ pc # "raised" => ENABLED NextMain

\* The finance key is missing: the failure comes after the web-search agent
\* was built.
C7_Witness ==
    /\ entry = "stock_agent" /\ file.present /\ FileLacksKey
    /\ pc = "raised" /\ error = KeyError
    /\ HasKey(agents, "web_search") /\ ~HasKey(agents, "finance")
    /\ self_agents = << >>

SetupFailed ==
    entry = "playground" /\ model # << >> /\ ~served /\ raised # NoError

\* C8: a failure of an agent constructor or of Playground(...) inside
\* setup_playground is logged and the same exception re-raised, and
\* serve_playground_app is invoked only after the secret was resolved, both
\* agents built and the application built, with nothing raised before.
C8_SetupFailureIsFatal ==
    /\ SetupFailed =>
         /\ pc = "raised" /\ error = raised
         /\ log # << >>
         /\ log[Len(log)] = <<"error", "Playground setup failed", raised>>
         /\ app = << >>
    /\ served =>
         /\ entry = "playground" /\ SecretResolved /\ phi_api = environ
         /\ model # << >>
         /\ Len(agents) = 2
         /\ agents[1].name = "Finance agent" /\ agents[2].name = "Web search agent"
         /\ app # << >> /\ app[1].agents = agents
         /\ \A i \in 1..Len(log) : log[i][2] # "Playground setup failed"
         /\ \A i \in 1..Len(log) : log[i][2] # "Environment setup failed"
    /\ (entry = "playground" /\ pc = "serving") => raised = NoError /\ error = NoError

\* The web-search constructor failed after the finance agent was built.
C8_Witness ==
    /\ SetupFailed /\ Len(agents) = 1 /\ pc = "raised"
    /\ error = Exc("ImportError", << >>)

\* Uninitialized, Configured, QueryIssued, Completed.
Phase(p) ==
    CASE p = "constructed" -> 1
      [] p = "query_issued" -> 2
      [] p = "completed" -> 3
      [] OTHER -> 0

C9_Order ==
    /\ model # << >> => config # << >>
    /\ agents # << >> => model # << >>
    /\ HasKey(agents, "finance") => HasKey(agents, "web_search")
    /\ HasKey(agents, "multi") =>
         /\ HasKey(agents, "web_search") /\ HasKey(agents, "finance")
         /\ Get(agents, "multi").team
              = <<Get(agents, "web_search"), Get(agents, "finance")>>
         /\ Get(agents, "multi").model = model[1]
    /\ Phase(pc) >= 1 <=> self_agents # << >>
    /\ self_agents # << >> =>
         self_agents = agents /\ Keys(agents) = {"web_search", "finance", "multi"}
    /\ queries = (IF Phase(pc) >= 2 THEN 1 ELSE 0)
    /\ calls = (IF Phase(pc) = 3 THEN 1 ELSE 0)
    /\ pc = "raised" => queries = 0

C9_Forward ==
    /\ Phase(pc') >= Phase(pc)
    /\ Phase(pc') <= Phase(pc) + 1
    /\ pc = "raised" => pc' = "raised"

\* C9: a run of main goes Uninitialized -> Configured -> QueryIssued ->
\* Completed and never back: config before model, web-search and finance
\* agents before the team agent, the query only once all three agents exist,
\* one query per run whether the call fails or not, and Completed after
\* QueryIssued.
C9_MainStateMachine ==
    /\ []C9_Order
    /\ [][C9_Forward]_vars
    /\ (pc = "query_issued") ~> (pc = "completed")

\* The call failed and main completed without asking again.
C9_Witness ==
    /\ pc = "completed" /\ raised # NoError /\ queries = 1 /\ calls = 1

\* C10: once set, self.config, self.model and self.agents (with the team and
\* its instructions) are never changed, by no analyze_stock call and not by the
\* aggregator.
C10_Frame ==
    [][/\ config # << >> => config' = config
       /\ model # << >> => model' = model
       /\ self_agents # << >> => self_agents' = self_agents /\ agents' = agents]_vars

\* Two calls were made, the last one failing.
C10_Witness ==
    /\ entry = "stock_agent" /\ pc = "library_idle" /\ calls = 2
    /\ raised # NoError
    /\ Cardinality(AllInstructions(config[1])) = 2
====
